---- MODULE Spec2Model ----
(***************************************************************************)
(* Model of src/Virtualized-Table-With-Skeletons/src/App.jsx: the React    *)
(* component App, its state hooks, its event handlers and the values it    *)
(* derives on every render.                                                *)
(*                                                                         *)
(* A row {id, name, email} is immutable and fully determined by its id     *)
(* (App.jsx:32-35), so a store slot holds the id of its row, or Hole.      *)
(* RowOf(id) gives the row's fields.  Strings are sequences of one-char    *)
(* strings.  Event handlers run one at a time and React re-renders between *)
(* two events, so a handler reads the state of the render before it; the   *)
(* setData updater of toggleSort reads sortConfig from that same render.   *)
(***************************************************************************)
EXTENDS Integers, Sequences, FiniteSets, TLC

(* ------------------------------------------------------------------ *)
(* Sizes.  The program's values are 10000, 40, 600, 200 and 20         *)
(* (App.jsx:3-7); the model runs them scaled down.                     *)
(* ------------------------------------------------------------------ *)
TOTAL_ROWS == 12

ROW_HEIGHT == 2

VIEWPORT_HEIGHT == 3

BATCH_SIZE == 4

PREFETCH_THRESHOLD == 1

\* largest scroll offset a scroll event delivers, in rows
MaxScrollRow == 12

Hole == 0

Keys == {"id", "name", "email"}

Directions == {"asc", "desc"}

(* ------------------------------------------------------------------ *)
(* Strings                                                             *)
(* ------------------------------------------------------------------ *)
DigitChars == <<"0", "1", "2", "3", "4", "5", "6", "7", "8", "9">>

RECURSIVE Digits(_)
\* the decimal digits of n, as the template literal `${id}` prints them
Digits(n) ==
    IF n < 10 THEN <<DigitChars[n + 1]>>
    ELSE Digits(n \div 10) \o <<DigitChars[(n % 10) + 1]>>

\* name: `User ${id}`
Name(id) == <<"U", "s", "e", "r", " ">> \o Digits(id)

\* email: `user${id}@example.com`
Email(id) ==
    <<"u", "s", "e", "r">> \o Digits(id)
        \o <<"@", "e", "x", "a", "m", "p", "l", "e", ".", "c", "o", "m">>

RowOf(id) == [id |-> id, name |-> Name(id), email |-> Email(id)]

\* UTF-16 code unit of the characters that occur
CodeUnit ==
    (" " :> 32) @@ ("." :> 46) @@ ("0" :> 48) @@ ("1" :> 49) @@ ("2" :> 50)
    @@ ("3" :> 51) @@ ("4" :> 52) @@ ("5" :> 53) @@ ("6" :> 54) @@ ("7" :> 55)
    @@ ("8" :> 56) @@ ("9" :> 57) @@ ("@" :> 64) @@ ("R" :> 82) @@ ("U" :> 85) @@ ("Z" :> 90)
    @@ ("a" :> 97) @@ ("c" :> 99) @@ ("e" :> 101) @@ ("l" :> 108)
    @@ ("m" :> 109) @@ ("o" :> 111) @@ ("p" :> 112) @@ ("r" :> 114)
    @@ ("s" :> 115) @@ ("u" :> 117) @@ ("x" :> 120) @@ ("z" :> 122)

\* primary collation weight used by String.prototype.localeCompare:
\* white space, then punctuation, then digits, then letters; a letter and
\* its capital share a weight
LocaleWeight ==
    (" " :> 1) @@ ("." :> 2) @@ ("@" :> 3) @@ ("0" :> 10) @@ ("1" :> 11)
    @@ ("2" :> 12) @@ ("3" :> 13) @@ ("4" :> 14) @@ ("5" :> 15) @@ ("6" :> 16)
    @@ ("7" :> 17) @@ ("8" :> 18) @@ ("9" :> 19) @@ ("a" :> 20) @@ ("c" :> 22)
    @@ ("e" :> 24) @@ ("l" :> 31) @@ ("m" :> 32) @@ ("o" :> 34) @@ ("p" :> 35)
    @@ ("r" :> 37) @@ ("R" :> 37) @@ ("s" :> 38) @@ ("u" :> 40) @@ ("U" :> 40) @@ ("x" :> 43)
    @@ ("z" :> 45) @@ ("Z" :> 45)

LowerChar(c) ==
    IF c = "R" THEN "r" ELSE IF c = "U" THEN "u" ELSE IF c = "Z" THEN "z" ELSE c

\* String.prototype.toLowerCase
toLowerCase(s) == [i \in 1..Len(s) |-> LowerChar(s[i])]

RECURSIVE TrimStart(_)
TrimStart(s) ==
    IF s # <<>> /\ Head(s) = " " THEN TrimStart(Tail(s)) ELSE s

RECURSIVE TrimEnd(_)
TrimEnd(s) ==
    IF s # <<>> /\ s[Len(s)] = " " THEN TrimEnd(SubSeq(s, 1, Len(s) - 1)) ELSE s

\* String.prototype.trim
trim(s) == TrimEnd(TrimStart(s))

\* String.prototype.includes
includes(s, q) ==
    \E i \in 0..(Len(s) - Len(q)) : SubSeq(s, i + 1, i + Len(q)) = q

RECURSIVE LexCmp(_, _)
\* lexicographic comparison of two sequences of numbers: -1, 0 or 1
LexCmp(s, t) ==
    IF s = <<>> THEN (IF t = <<>> THEN 0 ELSE -1)
    ELSE IF t = <<>> THEN 1
    ELSE IF Head(s) < Head(t) THEN -1
    ELSE IF Head(s) > Head(t) THEN 1
    ELSE LexCmp(Tail(s), Tail(t))

\* the relational operators < and > on two strings compare code units
CodeUnitCmp(s, t) ==
    LexCmp([i \in 1..Len(s) |-> CodeUnit[s[i]]], [i \in 1..Len(t) |-> CodeUnit[t[i]]])

\* a.localeCompare(b)
localeCompare(s, t) ==
    LexCmp([i \in 1..Len(s) |-> LocaleWeight[s[i]]],
           [i \in 1..Len(t) |-> LocaleWeight[t[i]]])

Min(a, b) == IF a < b THEN a ELSE b

Max(a, b) == IF a > b THEN a ELSE b

\* Math.ceil(a / b) for a >= 0, b > 0
CeilDiv(a, b) == (a + b - 1) \div b

(* ------------------------------------------------------------------ *)
(* State (App.jsx:10-16) and the events in flight                      *)
(* ------------------------------------------------------------------ *)
VARIABLES
    pc,          \* "created" after the first render, "mounted" once the mount effect ran
    data,        \* useState([]): the sparse array, data[i + 1] is slot i
    loading,     \* useState(false)
    hasMore,     \* useState(true)
    scrollTop,   \* useState(0)
    filter,      \* useState("")
    sortConfig,  \* useState({ key: "id", direction: "asc" })
    timers,      \* the setTimeout callbacks armed by fetchBatch and not yet run
    lastOp,      \* history: the last event handled and the batch request it issued
    toggles,     \* history: consecutive header clicks on one column, starting from asc
    fetched      \* history: the indices covered by the requests that completed

vars ==
    <<pc, data, loading, hasMore, scrollTop, filter, sortConfig, timers, lastOp, toggles,
      fetched>>

NoRequest == [startIndex |-> -1, count |-> 0]

\* the rows a scroll event can report: one offset per row, not all row-aligned
ScrollOffsets == {r * ROW_HEIGHT + (r % ROW_HEIGHT) : r \in 0..MaxScrollRow}

\* the texts typed into the filter box
Filters ==
    { <<>>, <<" ">>, <<"R", "1">>, <<"R", "1", " ">>, <<"Z">> }

(* ------------------------------------------------------------------ *)
(* The sparse array                                                    *)
(* ------------------------------------------------------------------ *)
\* data[index], undefined (a hole) past the end of the array
Slot(d, index) == IF index + 1 \in 1..Len(d) THEN d[index + 1] ELSE Hole

IsRow(x) == x # Hole

\* data.filter(Boolean)
loadedRowsOf(d) == SelectSeq(d, IsRow)

\* a batch whose rows all carry the id of its first row
newRowsSameId(start, count) == [i \in 1..count |-> start + 1]

\* Array.from({ length: count }, (_, i) => row with id start + i + 1)
newRows(start, count) == [i \in 1..count |-> start + (i - 1) + 1]

\* a write that fills holes only and keeps a row that is already there
PutRangeKeepExisting(prev, start, rows) ==
    [j \in 1..Max(Len(prev), start + Len(rows)) |->
        IF j - 1 >= start /\ j - 1 < start + Len(rows) /\ Slot(prev, j - 1) = Hole
        THEN rows[j - start]
        ELSE Slot(prev, j - 1)]

\* the setData updater of fetchBatch: copy[start + i] = row
PutRange(prev, start, rows) ==
    [j \in 1..Max(Len(prev), start + Len(rows)) |->
        IF j - 1 >= start /\ j - 1 < start + Len(rows)
        THEN rows[j - start]
        ELSE Slot(prev, j - 1)]

(* ------------------------------------------------------------------ *)
(* Sorting                                                             *)
(* ------------------------------------------------------------------ *)
\* every id a fetch can produce
Ids == 1..(TOTAL_ROWS + BATCH_SIZE)

\* a[key] < b[key] and a[key] > b[key] for the string columns, tabulated
CodeUnitOrder ==
    [key \in {"name", "email"} |->
        [a \in Ids |-> [b \in Ids |-> CodeUnitCmp(RowOf(a)[key], RowOf(b)[key])]]]

\* a[key].toString().localeCompare(b[key].toString()), tabulated
LocaleOrder ==
    [key \in {"name", "email"} |->
        [a \in Ids |-> [b \in Ids |-> localeCompare(RowOf(a)[key], RowOf(b)[key])]]]

\* the comparator of processedData: < and > on the two values
MemoCompare(a, b, key, direction) ==
    LET c == IF key = "id" THEN (IF a < b THEN -1 ELSE IF a > b THEN 1 ELSE 0)
             ELSE CodeUnitOrder[key][a][b]
    IN  IF c < 0 THEN (IF direction = "asc" THEN -1 ELSE 1)
        ELSE IF c > 0 THEN (IF direction = "asc" THEN 1 ELSE -1)
        ELSE 0

\* the comparator of toggleSort: subtraction on numbers, localeCompare on strings
StoreCompare(a, b, key, direction) ==
    IF key = "id"
    THEN (IF direction = "asc" THEN a - b ELSE b - a)
    ELSE (IF direction = "asc" THEN LocaleOrder[key][a][b] ELSE LocaleOrder[key][b][a])

Compare(a, b, key, direction, which) ==
    IF which = "memo" THEN MemoCompare(a, b, key, direction)
    ELSE StoreCompare(a, b, key, direction)

RECURSIVE Insert(_, _, _, _, _)
\* x goes behind every element that does not sort after it (a stable sort)
Insert(x, s, key, direction, which) ==
    IF s = <<>> THEN <<x>>
    ELSE IF Compare(x, Head(s), key, direction, which) < 0 THEN <<x>> \o s
    ELSE <<Head(s)>> \o Insert(x, Tail(s), key, direction, which)

RECURSIVE SortRows(_, _, _, _)
\* Array.prototype.sort on an array without holes
SortRows(s, key, direction, which) ==
    IF s = <<>> THEN <<>>
    ELSE Insert(s[Len(s)], SortRows(SubSeq(s, 1, Len(s) - 1), key, direction, which),
                key, direction, which)

\* a sort that leaves every hole where it is and sorts the rows around them
SortStoreInPlace(prev, key, direction) ==
    LET rows == SortRows(loadedRowsOf(prev), key, direction, "store")
    IN  [j \in 1..Len(prev) |->
            IF IsRow(prev[j])
            THEN rows[Cardinality({k \in 1..j : IsRow(prev[k])})]
            ELSE Hole]

\* a sort that writes back only the rows matching the filter text
SortStoreMatchesOnly(prev, key, direction) ==
    LET q == toLowerCase(filter)
        IsMatch(id) == includes(toLowerCase(Name(id)), q) \/ includes(toLowerCase(Email(id)), q)
        rows == SortRows(SelectSeq(loadedRowsOf(prev), IsMatch), key, direction, "store")
    IN  rows \o [i \in 1..(Len(prev) - Len(rows)) |-> Hole]

\* Array.prototype.sort on the sparse copy: the rows sorted, the holes behind them
SortStore(prev, key, direction) ==
    LET rows == SortRows(loadedRowsOf(prev), key, direction, "store")
    IN  rows \o [i \in 1..(Len(prev) - Len(rows)) |-> Hole]

(* ------------------------------------------------------------------ *)
(* Values derived on every render                                      *)
(* ------------------------------------------------------------------ *)
loadedRows == loadedRowsOf(data)

\* the filter predicate of processedData: q is the filter text in lower case
Matches(id, q) ==
    includes(toLowerCase(Name(id)), q) \/ includes(toLowerCase(Email(id)), q)

\* Matches, tabulated for the texts that are typed
MatchTable ==
    [q \in {toLowerCase(f) : f \in Filters} \cup {toLowerCase(trim(f)) : f \in Filters} |->
        [id \in Ids |-> Matches(id, q)]]

\* the filtered rows left in the order the store has them
processedDataUnsorted ==
    LET q == toLowerCase(filter)
        IsMatch(id) == MatchTable[q][id]
    IN  IF trim(filter) # <<>> THEN SelectSeq(loadedRows, IsMatch) ELSE loadedRows

processedData ==
    LET q == toLowerCase(filter)
        IsMatch(id) == MatchTable[q][id]
        arr == IF trim(filter) # <<>> THEN SelectSeq(loadedRows, IsMatch) ELSE loadedRows
    IN  SortRows(arr, sortConfig.key, sortConfig.direction, "memo")

isFiltering == Len(trim(filter)) > 0

visibleCount == CeilDiv(VIEWPORT_HEIGHT, ROW_HEIGHT) + 5

absoluteStart == scrollTop \div ROW_HEIGHT

totalRows == IF isFiltering THEN Len(processedData) ELSE TOTAL_ROWS

\* the clamp without Math.max(0, ...)
startIndexOfNoClamp(total) == Min(absoluteStart, total - visibleCount)

startIndexOf(total) == Min(absoluteStart, Max(0, total - visibleCount))

startIndex == startIndexOf(totalRows)

\* the end without Math.min(totalRows, ...)
endIndexOfNoClamp(total, start) == start + visibleCount

endIndexOf(total, start) == Min(total, start + visibleCount)

endIndex == endIndexOf(totalRows, startIndex)

\* Array.prototype.slice(from, to): a negative index counts from the end
slice(arr, from, to) ==
    LET lo == IF from < 0 THEN Max(Len(arr) + from, 0) ELSE Min(from, Len(arr))
        hi == IF to < 0 THEN Max(Len(arr) + to, 0) ELSE Min(to, Len(arr))
    IN  SubSeq(arr, lo + 1, hi)

NoResults == [kind |-> "no-results", key |-> <<"no-results", 0>>, row |-> Hole]

\* the filtered branch without the "No results" row
visibleRowsNoPlaceholder ==
    IF isFiltering
    THEN LET part == slice(processedData, startIndex, endIndex)
         IN  [i \in 1..Len(part) |-> [kind |-> "row", key |-> <<"id", part[i]>>, row |-> part[i]]]
    ELSE [i \in 1..(endIndex - startIndex) |->
            LET index == startIndex + i - 1
                row == Slot(data, index)
            IN  IF IsRow(row)
                THEN [kind |-> "row", key |-> <<"index", index>>, row |-> row]
                ELSE [kind |-> "skeleton", key |-> <<"s", index>>, row |-> Hole]]

\* the <tr> elements between the two spacers
visibleRows ==
    IF isFiltering
    THEN LET part == slice(processedData, startIndex, endIndex)
         IN  IF Len(part) = 0
             THEN <<NoResults>>
             ELSE [i \in 1..Len(part) |->
                      [kind |-> "row", key |-> <<"id", part[i]>>, row |-> part[i]]]
    ELSE [i \in 1..(endIndex - startIndex) |->
            LET index == startIndex + i - 1
                row == Slot(data, index)
            IN  IF IsRow(row)
                THEN [kind |-> "row", key |-> <<"index", index>>, row |-> row]
                ELSE [kind |-> "skeleton", key |-> <<"s", index>>, row |-> Hole]]

spacerTop == startIndex * ROW_HEIGHT

spacerBottom == (totalRows - endIndex) * ROW_HEIGHT

(* ------------------------------------------------------------------ *)
(* Operations                                                          *)
(* ------------------------------------------------------------------ *)
Init ==
    /\ pc = "created"
    /\ data = <<>>
    /\ loading = FALSE
    /\ hasMore = TRUE
    /\ scrollTop = 0
    /\ filter = <<>>
    /\ sortConfig = [key |-> "id", direction |-> "asc"]
    /\ timers = <<>>
    /\ lastOp = [op |-> "init", req |-> NoRequest]
    /\ toggles = 0
    /\ fetched = {}

\* fetchBatch without setLoading(true): the gate never closes
FetchBatchNoFlag(start, count, gate) ==
    IF gate
    THEN UNCHANGED <<loading, timers>>
    ELSE /\ UNCHANGED loading
         /\ timers' = Append(timers, [startIndex |-> start, count |-> count])

\* fetchBatch: gate is the value of `loading` in the render the caller belongs to
FetchBatch(start, count, gate) ==
    IF gate
    THEN UNCHANGED <<loading, timers>>
    ELSE /\ loading' = TRUE
         /\ timers' = Append(timers, [startIndex |-> start, count |-> count])

\* the request the step armed a timer for, if any
Issued == IF Len(timers') > Len(timers) THEN timers'[Len(timers')] ELSE NoRequest

\* a mount effect that asks for the first batch only
MountFirstBatch ==
    /\ pc = "created"
    /\ pc' = "mounted"
    /\ FetchBatch(0, BATCH_SIZE, loading)
    /\ lastOp' = [op |-> "mount", req |-> Issued]
    /\ UNCHANGED <<data, hasMore, scrollTop, filter, sortConfig, toggles, fetched>>

\* the mount effect, which runs once, in the first render
Mount ==
    /\ pc = "created"
    /\ pc' = "mounted"
    /\ FetchBatch(0, TOTAL_ROWS, loading)
    /\ lastOp' = [op |-> "mount", req |-> Issued]
    /\ UNCHANGED <<data, hasMore, scrollTop, filter, sortConfig, toggles, fetched>>

nextBatchStartOf(currentRow) == (currentRow \div BATCH_SIZE) * BATCH_SIZE + BATCH_SIZE

\* handleScroll without the !data[nextBatchStart] test
HandleScrollIgnoreSlot(st) ==
    /\ pc = "mounted"
    /\ scrollTop' = st
    /\ IF isFiltering
       THEN UNCHANGED <<loading, timers>>
       ELSE LET currentRow == st \div ROW_HEIGHT
                nextBatchStart == nextBatchStartOf(currentRow)
            IN  IF /\ hasMore /\ ~loading
                   /\ nextBatchStart < TOTAL_ROWS
                   /\ nextBatchStart - currentRow <= PREFETCH_THRESHOLD
                THEN FetchBatch(nextBatchStart, BATCH_SIZE, loading)
                ELSE UNCHANGED <<loading, timers>>
    /\ lastOp' = [op |-> "scroll", req |-> Issued]
    /\ UNCHANGED <<pc, data, hasMore, filter, sortConfig, toggles, fetched>>

\* handleScroll without the early return in filtered mode
HandleScrollNoFilterCheck(st) ==
    /\ pc = "mounted"
    /\ scrollTop' = st
    /\ LET currentRow == st \div ROW_HEIGHT
           nextBatchStart == nextBatchStartOf(currentRow)
       IN  IF /\ hasMore /\ ~loading
              /\ nextBatchStart < TOTAL_ROWS
              /\ nextBatchStart - currentRow <= PREFETCH_THRESHOLD
              /\ ~IsRow(Slot(data, nextBatchStart))
           THEN FetchBatch(nextBatchStart, BATCH_SIZE, loading)
           ELSE UNCHANGED <<loading, timers>>
    /\ lastOp' = [op |-> "scroll", req |-> Issued]
    /\ UNCHANGED <<pc, data, hasMore, filter, sortConfig, toggles, fetched>>

HandleScroll(st) ==
    /\ pc = "mounted"
    /\ scrollTop' = st
    /\ IF isFiltering
       THEN UNCHANGED <<loading, timers>>
       ELSE LET currentRow == st \div ROW_HEIGHT
                nextBatchStart == nextBatchStartOf(currentRow)
            IN  IF /\ hasMore /\ ~loading
                   /\ nextBatchStart < TOTAL_ROWS
                   /\ nextBatchStart - currentRow <= PREFETCH_THRESHOLD
                   /\ ~IsRow(Slot(data, nextBatchStart))
                THEN FetchBatch(nextBatchStart, BATCH_SIZE, loading)
                ELSE UNCHANGED <<loading, timers>>
    /\ lastOp' = [op |-> "scroll", req |-> Issued]
    /\ UNCHANGED <<pc, data, hasMore, filter, sortConfig, toggles, fetched>>

\* onChange without the scroll reset
SetFilterNoReset(text) ==
    /\ pc = "mounted"
    /\ text # filter
    /\ filter' = text
    /\ lastOp' = [op |-> "filter", req |-> NoRequest]
    /\ UNCHANGED <<pc, data, loading, hasMore, scrollTop, sortConfig, timers, toggles,
                   fetched>>

\* onChange that also cancels the request in flight
SetFilterCancels(text) ==
    /\ pc = "mounted"
    /\ text # filter
    /\ filter' = text
    /\ scrollTop' = 0
    /\ timers' = <<>>
    /\ lastOp' = [op |-> "filter", req |-> NoRequest]
    /\ UNCHANGED <<pc, data, loading, hasMore, sortConfig, toggles, fetched>>

\* onChange of the filter box
SetFilter(text) ==
    /\ pc = "mounted"
    /\ text # filter
    /\ filter' = text
    /\ scrollTop' = 0
    /\ lastOp' = [op |-> "filter", req |-> NoRequest]
    /\ UNCHANGED <<pc, data, loading, hasMore, sortConfig, timers, toggles, fetched>>

\* an updater that flips the direction whatever column was active
NextSortConfigAlwaysFlip(prev, key) ==
    [key |-> key, direction |-> IF prev.direction = "asc" THEN "desc" ELSE "asc"]

\* the setSortConfig updater of toggleSort
NextSortConfig(prev, key) ==
    [key |-> key,
     direction |-> IF prev.key = key /\ prev.direction = "asc" THEN "desc" ELSE "asc"]

\* a header click.  The setData updater closes over sortConfig of the
\* render the click happened in, so it sorts by the direction before the click.
ToggleSort(key) ==
    /\ pc = "mounted"
    /\ sortConfig' = NextSortConfig(sortConfig, key)
    /\ data' = SortStore(data, key, sortConfig.direction)
    /\ lastOp' = [op |-> "sort", req |-> NoRequest, key |-> key]
    /\ toggles' = IF sortConfig.key = key /\ sortConfig.direction = "asc" THEN 1
                  ELSE IF sortConfig.key = key /\ toggles = 1 THEN 2
                  ELSE 0
    /\ UNCHANGED <<pc, loading, hasMore, scrollTop, filter, timers, fetched>>

\* the callback with > in place of >= in the hasMore test
FetchCompleteStrict ==
    /\ timers # <<>>
    /\ LET t == Head(timers)
       IN  /\ data' = PutRange(data, t.startIndex, newRows(t.startIndex, t.count))
           /\ loading' = FALSE
           /\ hasMore' = IF t.startIndex + t.count > TOTAL_ROWS THEN FALSE ELSE hasMore
           /\ lastOp' = [op |-> "complete", req |-> t]
           /\ fetched' = fetched \cup (t.startIndex..(t.startIndex + t.count - 1))
    /\ timers' = Tail(timers)
    /\ toggles' = 0
    /\ UNCHANGED <<pc, scrollTop, filter, sortConfig>>

\* the setTimeout callback of fetchBatch; equal delays fire in arming order
FetchComplete ==
    /\ timers # <<>>
    /\ LET t == Head(timers)
       IN  /\ data' = PutRange(data, t.startIndex, newRows(t.startIndex, t.count))
           /\ loading' = FALSE
           /\ hasMore' = IF t.startIndex + t.count >= TOTAL_ROWS THEN FALSE ELSE hasMore
           /\ lastOp' = [op |-> "complete", req |-> t]
           /\ fetched' = fetched \cup (t.startIndex..(t.startIndex + t.count - 1))
    /\ timers' = Tail(timers)
    /\ toggles' = 0
    /\ UNCHANGED <<pc, scrollTop, filter, sortConfig>>

Next ==
    \/ Mount
    \/ \E st \in ScrollOffsets : HandleScroll(st)
    \/ \E text \in Filters : SetFilter(text)
    \/ \E key \in Keys : ToggleSort(key)
    \/ FetchComplete

Spec == Init /\ [][Next]_vars

\* the timer fires and the mount effect runs: nothing in the code cancels either
FairSpec == Spec /\ WF_vars(Mount) /\ WF_vars(FetchComplete)

(* ------------------------------------------------------------------ *)
(* The scroll handler over any load state: the batches [0, k) loaded   *)
(* in place, a request for any batch possibly in flight                *)
(* ------------------------------------------------------------------ *)
NumBatches == CeilDiv(TOTAL_ROWS, BATCH_SIZE)

InitLoaded ==
    \/ Init
    \/ /\ pc = "mounted"
       /\ \E k \in 0..NumBatches : data = newRows(0, Min(k * BATCH_SIZE, TOTAL_ROWS))
       /\ hasMore \in BOOLEAN
       /\ \/ loading = FALSE /\ timers = <<>>
          \/ /\ loading = TRUE
             /\ \E b \in 0..(NumBatches - 1) :
                    timers = <<[startIndex |-> b * BATCH_SIZE, count |-> BATCH_SIZE]>>
       /\ scrollTop = 0
       /\ filter = <<>>
       /\ sortConfig = [key |-> "id", direction |-> "asc"]
       /\ lastOp = [op |-> "init", req |-> NoRequest]
       /\ toggles = 0
       /\ fetched = {i \in 0..(TOTAL_ROWS - 1) : i < Len(data)}

SpecLoaded == InitLoaded /\ [][Next]_vars

(* ------------------------------------------------------------------ *)
(* Properties                                                          *)
(* ------------------------------------------------------------------ *)
\* what handleScroll decides on, for a scroll event to offset st
PrefetchDue(st) ==
    LET r == st \div ROW_HEIGHT
        nbs == (r \div BATCH_SIZE) * BATCH_SIZE + BATCH_SIZE
    IN  /\ nbs < TOTAL_ROWS
        /\ nbs - r <= PREFETCH_THRESHOLD
        /\ Slot(data, nbs) = Hole
        /\ hasMore

PrefetchRequest(st) ==
    [startIndex |-> ((st \div ROW_HEIGHT) \div BATCH_SIZE) * BATCH_SIZE + BATCH_SIZE,
     count |-> BATCH_SIZE]

\* C1: the number of batch requests issued and not yet completed is never
\* greater than 1, whatever the interleaving of mount, scroll, filter, sort
\* and completion.
C1_AtMostOneInFlight == Len(timers) <= 1

\* a scroll event that was due to prefetch arrived while a fetch was in flight
C1_Witness ==
    /\ lastOp.op = "scroll"
    /\ ~isFiltering
    /\ PrefetchDue(scrollTop)
    /\ lastOp.req = NoRequest
    /\ Len(timers) = 1

\* C2: when the request (s, c) has completed, slot s + i holds the row with
\* id s + i + 1 for every i < c, whatever the store held before.
C2_CompletionWritesRange ==
    lastOp.op = "complete" =>
        \A i \in 0..(lastOp.req.count - 1) :
            Slot(data, lastOp.req.startIndex + i) = lastOp.req.startIndex + i + 1

\* a prefetched batch completed after header clicks had reordered the store
C2_Witness ==
    /\ lastOp.op = "complete"
    /\ lastOp.req.startIndex > 0
    /\ sortConfig # [key |-> "id", direction |-> "asc"]
    /\ Len(loadedRows) > lastOp.req.count

\* C3: 0 <= startIndex <= endIndex <= totalRows in every state, in Normal
\* and in Filtering mode, also when totalRows is 0 or below the scroll row.
C3_WindowInRange ==
    LET total == totalRows
        start == startIndexOf(total)
        end == endIndexOf(total, start)
    IN  /\ 0 <= start
        /\ start <= end
        /\ end <= total

\* Filtering mode, no match, and the scroll offset beyond the (empty) list
C3_Witness ==
    /\ isFiltering
    /\ loadedRows # <<>>
    /\ totalRows = 0
    /\ absoluteStart > 0

\* C7: every change of the filter text sets the scroll offset to 0 in the
\* same step, so the window starts at index 0 right after it.
C7_FilterResetsScroll ==
    lastOp.op = "filter" => (scrollTop = 0 /\ startIndex = 0)

\* the filter was cleared (Filtering -> Normal) with rows loaded
C7_Witness ==
    /\ lastOp.op = "filter"
    /\ filter = <<>>
    /\ loadedRows # <<>>
    /\ scrollTop = 0

\* C8: in Normal mode a scroll event issues the request
\* (nextBatchStart, BATCH_SIZE) if and only if nextBatchStart < TOTAL_ROWS,
\* nextBatchStart - row <= PREFETCH_THRESHOLD, the slot at nextBatchStart is
\* a hole, hasMore holds and no fetch is in flight; it issues no other request.
C8_PrefetchIff ==
    [][(lastOp'.op = "scroll" /\ ~isFiltering) =>
        /\ (Issued = PrefetchRequest(scrollTop'))
              <=> (PrefetchDue(scrollTop') /\ timers = <<>>)
        /\ Issued \in {NoRequest, PrefetchRequest(scrollTop')}]_vars

\* a scroll event issued the request for the next batch
C8_Witness ==
    /\ lastOp.op = "scroll"
    /\ ~isFiltering
    /\ lastOp.req = PrefetchRequest(scrollTop)
    /\ timers = <<lastOp.req>>

\* C9: a scroll event handled in Filtering mode issues no request and leaves
\* the in-flight flag as it was.
C9_NoPrefetchWhileFiltering ==
    [][(lastOp'.op = "scroll" /\ isFiltering) =>
        (timers' = timers /\ loading' = loading /\ lastOp'.req = NoRequest)]_vars

\* a scroll in Filtering mode that would have prefetched in Normal mode
C9_Witness ==
    /\ lastOp.op = "scroll"
    /\ isFiltering
    /\ PrefetchDue(scrollTop)
    /\ ~loading
    /\ timers = <<>>

\* C10: hasMore starts true, never goes from false to true, and, the fetch
\* completing, becomes false.
C10_HasMoreMonotonic ==
    /\ hasMore = TRUE
    /\ [][~hasMore => ~hasMore']_vars
    /\ <>(~hasMore)

\* events handled after hasMore became false
C10_Witness ==
    /\ ~hasMore
    /\ lastOp.op \in {"scroll", "sort", "filter"}
    /\ sortConfig.direction = "desc"

(* ---- claims the code does not meet ---- *)
MatchesTrimmed(id) == MatchTable[toLowerCase(trim(filter))][id]

\* C4: in Filtering mode the compact sequence has no hole and holds exactly
\* the loaded rows whose name or email contains the trimmed filter text,
\* case-insensitively; totalRows is its length.
C4_CompactIsTrimmedMatch ==
    isFiltering =>
        /\ \A i \in 1..Len(processedData) : processedData[i] # Hole
        /\ {processedData[i] : i \in 1..Len(processedData)}
              = {loadedRows[i] : i \in {j \in 1..Len(loadedRows) : MatchesTrimmed(loadedRows[j])}}
        /\ totalRows = Len(processedData)

\* s is in ascending order of column key under the comparator `which`
Ascending(s, key, which) ==
    \A i, j \in 1..Len(s) : i < j => Compare(s[i], s[j], key, "asc", which) <= 0

\* the loaded rows sit in slots 0..loadedCount-1
Compacted(d) == SubSeq(d, 1, Len(loadedRowsOf(d))) = loadedRowsOf(d)

\* C5: after two consecutive clicks on the column that was active with
\* direction asc, the store's loaded rows and the compact sequence are both
\* in ascending order of that column.
C5_TwoTogglesAscending ==
    toggles = 2 =>
        /\ Compacted(data)
        /\ Ascending(loadedRows, sortConfig.key, "store")
        /\ Ascending(processedData, sortConfig.key, "memo")

\* C6: after a header click the store's loaded rows are ordered by the new
\* sortKey in the new sortDirection.
C6_StoreFollowsSortDirection ==
    lastOp.op = "sort" =>
        /\ Compacted(data)
        /\ \A i, j \in 1..Len(loadedRows) :
              i < j => StoreCompare(loadedRows[i], loadedRows[j],
                                    sortConfig.key, sortConfig.direction) <= 0

(* ---- second group of claims ---- *)
\* the completed requests cover every index of [0, TOTAL_ROWS)
Covered == \A i \in 0..(TOTAL_ROWS - 1) : i \in fetched

\* the ids of the rows in the store d
RowSet(d) == {d[j] : j \in {k \in 1..Len(d) : IsRow(d[k])}}

\* C11: hasMore is false exactly when the ranges of the completed requests
\* cover [0, TOTAL_ROWS); when it is false the store has no hole in that range.
C11_HasMoreIffNotCovered ==
    /\ (~hasMore) <=> Covered
    /\ (~hasMore) => \A i \in 0..(TOTAL_ROWS - 1) : IsRow(Slot(data, i))

\* the range is covered, and a header click has since reordered the store
C11_Witness ==
    /\ ~hasMore
    /\ Covered
    /\ lastOp.op = "sort"
    /\ Slot(data, 0) # 1

\* C12: a scroll, a filter edit or a completion never turns a filled slot into
\* a hole, and no step lowers the number of loaded rows or removes a loaded
\* row from the store.
C12_NoRowDropped ==
    [][/\ lastOp'.op \in {"scroll", "filter", "complete"} =>
              \A i \in 0..(Len(data) - 1) : IsRow(Slot(data, i)) => IsRow(Slot(data', i))
       /\ Len(loadedRowsOf(data')) >= Len(loadedRows)
       /\ RowSet(data) \subseteq RowSet(data')]_vars

\* a header click relocated the rows of a full store while a filter was set
C12_Witness ==
    /\ lastOp.op = "sort"
    /\ isFiltering
    /\ Len(loadedRows) = TOTAL_ROWS
    /\ Slot(data, 0) # 1

\* C13: in Filtering mode with no matching row the window is exactly one
\* "no results" entry, both spacers are 0 and startIndex = endIndex =
\* totalRows = 0, whatever the scroll offset.
C13_EmptyMatchWindow ==
    (isFiltering /\ processedData = <<>>) =>
        /\ visibleRows = <<NoResults>>
        /\ spacerTop = 0
        /\ spacerBottom = 0
        /\ startIndex = 0 /\ endIndex = 0 /\ totalRows = 0

\* rows are loaded, none matches, and the scroll offset is not 0
C13_Witness ==
    /\ isFiltering
    /\ loadedRows # <<>>
    /\ processedData = <<>>
    /\ scrollTop > 0

\* C20: spacerTop + (endIndex - startIndex) * ROW_HEIGHT + spacerBottom =
\* totalRows * ROW_HEIGHT with both spacers >= 0; endIndex - startIndex
\* entries are rendered in Normal mode and in Filtering mode with a match;
\* in Filtering mode the "no results" entry is rendered exactly when the
\* compact sequence is empty.
C20_WindowConservation ==
    /\ spacerTop + (endIndex - startIndex) * ROW_HEIGHT + spacerBottom
          = totalRows * ROW_HEIGHT
    /\ spacerTop >= 0
    /\ spacerBottom >= 0
    /\ (~isFiltering \/ Len(processedData) >= 1) =>
          /\ Len(visibleRows) = endIndex - startIndex
          /\ \A i \in 1..Len(visibleRows) : visibleRows[i] # NoResults
    /\ isFiltering =>
          ((\E i \in 1..Len(visibleRows) : visibleRows[i] = NoResults)
              <=> processedData = <<>>)

\* Filtering mode with fewer matches than the window holds, scrolled down
C20_Witness ==
    /\ isFiltering
    /\ Len(processedData) >= 1
    /\ Len(processedData) < visibleCount
    /\ scrollTop > 0
    /\ spacerTop = 0
    /\ spacerBottom = 0

\* C14: a header click on column K sets sortKey to K; the direction becomes
\* desc if K was active with asc, asc if K was active with desc, and asc if
\* another column was active; no other event changes sortKey or sortDirection.
C14_HeaderClickToggles ==
    [][IF lastOp'.op = "sort"
       THEN /\ sortConfig'.key = lastOp'.key
            /\ sortConfig'.direction =
                  (IF sortConfig.key # lastOp'.key THEN "asc"
                   ELSE IF sortConfig.direction = "asc" THEN "desc" ELSE "asc")
       ELSE sortConfig' = sortConfig]_vars

\* a click on the email header that made the direction asc, rows loaded
C14_Witness ==
    /\ lastOp.op = "sort"
    /\ lastOp.key = "email"
    /\ sortConfig = [key |-> "email", direction |-> "asc"]
    /\ toggles = 0
    /\ Len(loadedRows) = TOTAL_ROWS

\* the requests the code can issue
Requests ==
    {[startIndex |-> 0, count |-> TOTAL_ROWS]}
        \cup {[startIndex |-> b * BATCH_SIZE, count |-> BATCH_SIZE] : b \in 0..NumBatches}

\* the request t has just completed and its range is in the store
Applied(t) ==
    /\ lastOp = [op |-> "complete", req |-> t]
    /\ \A i \in 0..(t.count - 1) : Slot(data, t.startIndex + i) = t.startIndex + i + 1

\* C15: the timer being fair, whenever the in-flight flag is true it becomes
\* false again, and every request in flight completes with its range written
\* into the store, whatever scroll, filter or sort events happen meanwhile.
C15_FetchCompletes ==
    /\ loading ~> ~loading
    /\ \A t \in Requests : (timers # <<>> /\ Head(timers) = t) ~> Applied(t)

\* the request completed after the filter, the sort and the scroll offset
\* had all been changed
C15_Witness ==
    /\ Applied([startIndex |-> 0, count |-> TOTAL_ROWS])
    /\ ~loading
    /\ isFiltering
    /\ sortConfig.key # "id"
    /\ scrollTop > 0

\* how many slots of d hold each row
BagOf(d) == [id \in Ids |-> Cardinality({j \in 1..Len(d) : d[j] = id})]

\* C16: after a header click the filled slots are exactly 0..loadedCount-1
\* and the store holds the same rows as before, each as often as before.
C16_SortCompactsAndPermutes ==
    [][lastOp'.op = "sort" =>
          /\ Compacted(data')
          /\ Len(data') = Len(data)
          /\ BagOf(data') = BagOf(data)]_vars

\* a header click on a store that had a hole between two loaded ranges: the
\* rows are now packed in front of the holes and their ids are not 1..count
C16_Witness ==
    /\ lastOp.op = "sort"
    /\ loadedRows # <<>>
    /\ Len(data) > Len(loadedRows)
    /\ Compacted(data)
    /\ Cardinality(RowSet(data)) = Len(loadedRows)
    /\ \E a \in RowSet(data) : a > Len(loadedRows)

\* C17: in Filtering mode the compact sequence is ordered by the active
\* sortKey in the active sortDirection, whatever the order of the store, and
\* the entry at window position i is compactSequence[i].
C17_CompactFollowsSortConfig ==
    isFiltering =>
        /\ \A i, j \in 1..Len(processedData) :
              i < j => MemoCompare(processedData[i], processedData[j],
                                   sortConfig.key, sortConfig.direction) <= 0
        /\ processedData # <<>> =>
              /\ Len(visibleRows) = endIndex - startIndex
              /\ \A i \in 1..Len(visibleRows) :
                    visibleRows[i].row = processedData[startIndex + i]

\* several matches, shown in an order the store does not have
C17_Witness ==
    /\ isFiltering
    /\ Len(processedData) >= 2
    /\ processedData # processedDataUnsorted
    /\ Len(visibleRows) = Len(processedData)

\* C18: exactly one batch request is issued over a run: the mount effect
\* issues one, once, and handleScroll never issues any, neither while that
\* request is in flight nor after it completed.
C18_OnlyTheInitialRequest ==
    /\ [](pc = "mounted" => (Len(timers) = 1 \/ fetched # {}))
    /\ [](lastOp.op = "scroll" => lastOp.req = NoRequest)
    /\ []((pc = "mounted" /\ timers = <<>>) =>
             /\ ~hasMore
             /\ \A i \in 0..(TOTAL_ROWS - 1) : IsRow(Slot(data, i)))
    /\ [][/\ Issued # NoRequest => lastOp'.op = "mount"
          /\ lastOp'.op = "mount" => (pc = "created" /\ pc' = "mounted")
          /\ pc = "mounted" => pc' = "mounted"]_vars

\* after the request completed, a Normal-mode scroll to a row within the
\* threshold of the next batch boundary issued nothing
C18_Witness ==
    /\ lastOp = [op |-> "scroll", req |-> NoRequest]
    /\ ~isFiltering
    /\ ~loading
    /\ timers = <<>>
    /\ PrefetchRequest(scrollTop).startIndex < TOTAL_ROWS
    /\ PrefetchRequest(scrollTop).startIndex - (scrollTop \div ROW_HEIGHT) <= PREFETCH_THRESHOLD

\* C19: no two filled slots of the store hold rows with the same id, and
\* every filled slot has an index in [0, TOTAL_ROWS).
C19_DistinctIdsInRange ==
    /\ Len(data) <= TOTAL_ROWS
    /\ \A i, j \in 1..Len(data) :
          (i # j /\ IsRow(data[i]) /\ IsRow(data[j])) => data[i] # data[j]

\* a completion that landed after a header click filled the store
C19_Witness ==
    /\ lastOp.op = "complete"
    /\ sortConfig = [key |-> "email", direction |-> "desc"]
    /\ Cardinality(RowSet(data)) = TOTAL_ROWS

====
